---- MODULE Spec2Model ----
(***************************************************************************)
(* The matrix-to-LaTeX formatting loop of content/ch-gates/quantum-gates   *)
(* (the code cell that builds gate_latex from the unitary matrix gate),    *)
(* modelled statement by statement.  Strings are sequences of one-letter   *)
(* strings, so that slicing and splitting act on single characters.        *)
(***************************************************************************)
EXTENDS Integers, Sequences, FiniteSets, TLC

VARIABLES gate, gate_latex, line, element, pc, output, runs

vars == <<gate, gate_latex, line, element, pc, output, runs>>

(* ------------------------------ bounds -------------------------------- *)
MaxRows == 2
MaxCols == 2
MaxRuns == 2

(* ------------------------- complex numbers ---------------------------- *)
Cplx(re, im) == [re |-> re, im |-> im]

CMul(a, b) == Cplx(a.re * b.re - a.im * b.im, a.re * b.im + a.im * b.re)

Digits == <<"0", "1", "2", "3", "4", "5", "6", "7", "8", "9">>

RECURSIVE NatStr(_)
NatStr(n) == IF n < 10 THEN <<Digits[n + 1]>>
             ELSE NatStr(n \div 10) \o <<Digits[(n % 10) + 1]>>

\* the shortest rendering of an integral float, as complex.__str__ prints it
FloatStr(x) == IF x < 0 THEN <<"-">> \o NatStr(0 - x) ELSE NatStr(x)

\* str(element) of a complex number: '0j', '(1+0j)', '(-1+0j)', '-1j', ...
Str_AlwaysParen(c) ==
    <<"(">> \o FloatStr(c.re) \o (IF c.im >= 0 THEN <<"+">> ELSE <<>>)
            \o FloatStr(c.im) \o <<"j", ")">>

Str(c) ==
    IF c.re = 0
    THEN FloatStr(c.im) \o <<"j">>
    ELSE <<"(">> \o FloatStr(c.re) \o (IF c.im >= 0 THEN <<"+">> ELSE <<>>)
                 \o FloatStr(c.im) \o <<"j", ")">>

(* --------------------------- string pieces ---------------------------- *)
Prefix == <<"\\", "b", "e", "g", "i", "n", "{", "p", "m", "a", "t", "r", "i", "x", "}">>

Suffix == <<"\\", "e", "n", "d", "{", "p", "m", "a", "t", "r", "i", "x", "}">>

ColDelim == <<"&">>

RowDelim == <<"\\", "\\">>

\* Python's s[0:-k] for k > 0: all but the last k characters (empty if too short)
SliceOff(s, k) == SubSeq(s, 1, IF Len(s) > k THEN Len(s) - k ELSE 0)

\* line 261: gate_latex += str(element) + '&'
AppendElementStr_NoDelim(s, c) == s \o Str(c)

AppendElementStr(s, c) == s \o Str(c) \o ColDelim

\* line 262: gate_latex = gate_latex[0:-1]
TrimRowStr_Two(s) == SliceOff(s, 2)

TrimRowStr(s) == SliceOff(s, 1)

\* line 264: gate_latex = gate_latex[0:-2]
TrimFinalStr_One(s) == SliceOff(s, 1)

TrimFinalStr(s) == SliceOff(s, 2)

(* ------------------------------ inputs -------------------------------- *)
Values == {Cplx(0, 0), Cplx(1, 0)}

RowsOf(maxc) == UNION {[1..c -> Values] : c \in 0..maxc}

\* every sequence of at most MaxRows rows of at most MaxCols values each,
\* the rows not necessarily of one length
Matrices == UNION {[1..r -> RowsOf(MaxCols)] : r \in 0..MaxRows}

PauliX == <<<<Cplx(0, 0), Cplx(1, 0)>>, <<Cplx(1, 0), Cplx(0, 0)>>>>
PauliY == <<<<Cplx(0, 0), Cplx(0, -1)>>, <<Cplx(0, 1), Cplx(0, 0)>>>>
PauliZ == <<<<Cplx(1, 0), Cplx(0, 0)>>, <<Cplx(0, 0), Cplx(-1, 0)>>>>

\* the single-qubit gates x, y and z the notebook applies
Paulis == {PauliX, PauliY, PauliZ}

\* tensor product A (x) B of two square matrices
Kron(A, B) ==
    [r \in 1..(Len(A) * Len(B)) |->
        [c \in 1..(Len(A) * Len(B)) |->
            CMul(A[((r - 1) \div Len(B)) + 1][((c - 1) \div Len(B)) + 1],
                 B[((r - 1) % Len(B)) + 1][((c - 1) % Len(B)) + 1])]]

\* the unitary of a two-qubit circuit with one gate on qubit 1 (left factor)
\* and one on qubit 0 (right factor)
Unitaries == {Kron(q1, q0) : q1 \in Paulis, q0 \in Paulis}

NoOutput == <<"None">>

(* ------------------------------ Init ---------------------------------- *)
FirstPc(g) == IF Len(g) >= 1 THEN "for_element" ELSE "trim_final"

Start(g) ==
    /\ gate = g
    /\ gate_latex = Prefix
    /\ line = 1
    /\ element = 1
    /\ pc = FirstPc(g)
    /\ output = NoOutput
    /\ runs = 1

Init == \E g \in Matrices : Start(g)

InitNotebook == \E g \in Unitaries : Start(g)

(* ----------------------------- actions -------------------------------- *)
\* line 261, one iteration of "for element in line"
AppendElement ==
    /\ pc = "for_element"
    /\ element <= Len(gate[line])
    /\ gate_latex' = AppendElementStr(gate_latex, gate[line][element])
    /\ element' = element + 1
    /\ UNCHANGED <<gate, line, pc, output, runs>>

\* line 262, after the last element of the row
TrimRow ==
    /\ pc = "for_element"
    /\ element > Len(gate[line])
    /\ gate_latex' = TrimRowStr(gate_latex)
    /\ pc' = "row_delim"
    /\ UNCHANGED <<gate, line, element, output, runs>>

\* line 263, then back to "for line in gate"
AppendRowDelim_Single ==
    /\ pc = "row_delim"
    /\ gate_latex' = gate_latex \o <<"\\">>
    /\ line' = line + 1
    /\ element' = 1
    /\ pc' = IF line + 1 <= Len(gate) THEN "for_element" ELSE "trim_final"
    /\ UNCHANGED <<gate, output, runs>>

AppendRowDelim ==
    /\ pc = "row_delim"
    /\ gate_latex' = gate_latex \o RowDelim
    /\ line' = line + 1
    /\ element' = 1
    /\ pc' = IF line + 1 <= Len(gate) THEN "for_element" ELSE "trim_final"
    /\ UNCHANGED <<gate, output, runs>>

\* line 264
TrimFinal ==
    /\ pc = "trim_final"
    /\ gate_latex' = TrimFinalStr(gate_latex)
    /\ pc' = "suffix"
    /\ UNCHANGED <<gate, line, element, output, runs>>

\* line 265
AppendSuffix ==
    /\ pc = "suffix"
    /\ gate_latex' = gate_latex \o Suffix
    /\ pc' = "display"
    /\ UNCHANGED <<gate, line, element, output, runs>>

\* line 266: display(Markdown(gate_latex))
Display ==
    /\ pc = "display"
    /\ output' = gate_latex
    /\ pc' = "done"
    /\ UNCHANGED <<gate, gate_latex, line, element, runs>>

\* the cell is run again on the same circuit: line 258 assigns gate_latex afresh
Rerun_NoReset ==
    /\ pc = "done"
    /\ runs < MaxRuns
    /\ runs' = runs + 1
    /\ gate_latex' = gate_latex
    /\ line' = 1
    /\ element' = 1
    /\ pc' = FirstPc(gate)
    /\ UNCHANGED <<gate, output>>

Rerun ==
    /\ pc = "done"
    /\ runs < MaxRuns
    /\ runs' = runs + 1
    /\ gate_latex' = Prefix
    /\ line' = 1
    /\ element' = 1
    /\ pc' = FirstPc(gate)
    /\ UNCHANGED <<gate, output>>

Next ==
    \/ AppendElement
    \/ TrimRow
    \/ AppendRowDelim
    \/ TrimFinal
    \/ AppendSuffix
    \/ Display
    \/ Rerun

Spec == Init /\ [][Next]_vars

SpecNotebook == InitNotebook /\ [][Next]_vars

(* ------------------- reading an output string back -------------------- *)
StartsWith(s, p) == Len(s) >= Len(p) /\ SubSeq(s, 1, Len(p)) = p

EndsWith(s, p) == Len(s) >= Len(p) /\ SubSeq(s, Len(s) - Len(p) + 1, Len(s)) = p

\* the output without the first Len(Prefix) and the last Len(Suffix) characters
Body(s) == SubSeq(s, Len(Prefix) + 1, Len(s) - Len(Suffix))

\* the positions at which d occurs in s
Occurrences(s, d) == {k \in 1..(Len(s) - Len(d) + 1) : SubSeq(s, k, k + Len(d) - 1) = d}

\* the pieces of s between the (leftmost, non-overlapping) occurrences of d
RECURSIVE Split(_, _)
Split(s, d) ==
    IF Occurrences(s, d) = {} THEN <<s>>
    ELSE LET k == CHOOSE i \in Occurrences(s, d) : \A j \in Occurrences(s, d) : i <= j
         IN  <<SubSeq(s, 1, k - 1)>> \o Split(SubSeq(s, k + Len(d), Len(s)), d)

Count(s, d) == Len(Split(s, d)) - 1

\* an empty text holds no piece
Pieces(s, d) == IF s = <<>> THEN <<>> ELSE Split(s, d)

RECURSIVE Concat(_)
Concat(ss) == IF ss = <<>> THEN <<>> ELSE Head(ss) \o Concat(Tail(ss))

\* the entry strings of an output, row-major
Entries(s) ==
    LET rows == Pieces(Body(s), RowDelim)
    IN  Concat([r \in 1..Len(rows) |-> Pieces(rows[r], ColDelim)])

\* the renderings of the input values, row-major
Rendered(g) == Concat([r \in 1..Len(g) |-> [c \in 1..Len(g[r]) |-> Str(g[r][c])]])

IsRect(g) == \A r \in 1..Len(g) : Len(g[r]) = Len(g[1])

Ragged(g) == \E r, q \in 1..Len(g) : Len(g[r]) # Len(g[q])

Cols(g) == IF Len(g) = 0 THEN 0 ELSE Len(g[1])

NonEmptyRows(g) == Len(g) >= 1 /\ \A r \in 1..Len(g) : Len(g[r]) >= 1

Recorded == <<"\\","b","e","g","i","n","{","p","m","a","t","r","i","x","}","0","j","&","(","1","+","0","j",")","&","0","j","&","0","j","\\","\\","(","1","+","0","j",")","&","0","j","&","0","j","&","0","j","\\","\\","0","j","&","0","j","&","0","j","&","(","-","1","+","0","j",")","\\","\\","0","j","&","0","j","&","(","-","1","+","0","j",")","&","0","j","\\","e","n","d","{","p","m","a","t","r","i","x","}">>

(* ------------------------------ claims -------------------------------- *)
Done == pc = "done"

\* C1 (as stated): for every rectangular matrix, the displayed output is the
\* prefix, a body and the suffix, and the body split on the row delimiter and
\* each row on the column delimiter gives exactly the rows x cols renderings
\* of the input values, in row-major order.
C1_RoundTrip ==
    (Done /\ IsRect(gate)) =>
        /\ StartsWith(output, Prefix)
        /\ EndsWith(output, Suffix)
        /\ Len(Entries(output)) = Len(gate) * Cols(gate)
        /\ Entries(output) = Rendered(gate)

\* The round trip of C1 on the matrices the unguarded trims do not reach:
\* at least one row and at least one column.
RoundTripNonEmpty ==
    (Done /\ IsRect(gate) /\ NonEmptyRows(gate)) =>
        /\ output = Prefix \o Body(output) \o Suffix
        /\ Len(Entries(output)) = Len(gate) * Cols(gate)
        /\ Entries(output) = Rendered(gate)

\* C2 (as stated): for every matrix the body holds rows - 1 row delimiters and
\* each of its rows holds cols - 1 column delimiters.
C2_DelimiterCounts ==
    (Done /\ IsRect(gate)) =>
        /\ Count(Body(output), RowDelim) = Len(gate) - 1
        /\ \A r \in 1..Len(Split(Body(output), RowDelim)) :
              Count(Split(Body(output), RowDelim)[r], ColDelim) = Cols(gate) - 1

\* C2 (amended): for every rectangular matrix with at least one row and at
\* least one column, the body holds rows - 1 row delimiters, hence rows rows,
\* and each of them holds cols - 1 column delimiters.
C2_DelimiterCountsNonEmpty ==
    (Done /\ IsRect(gate) /\ NonEmptyRows(gate)) =>
        /\ StartsWith(output, Prefix)
        /\ Count(Body(output), RowDelim) = Len(gate) - 1
        /\ \A r \in 1..Len(Split(Body(output), RowDelim)) :
              Count(Split(Body(output), RowDelim)[r], ColDelim) = Cols(gate) - 1

C2_Witness ==
    /\ Done
    /\ Len(gate) = 2
    /\ Cols(gate) = 2
    /\ IsRect(gate)
    /\ Count(Body(output), RowDelim) = 1

\* C3 (as stated): for every rectangular matrix, those with zero rows or zero
\* columns included, the output starts with the prefix and ends with the suffix.
C3_PrefixSuffix ==
    (Done /\ IsRect(gate)) => (StartsWith(output, Prefix) /\ EndsWith(output, Suffix))

\* C4 (as stated): for a matrix with zero rows the output is exactly the
\* prefix followed by the suffix.
C4_EmptyMatrix ==
    (Done /\ Len(gate) = 0) => output = Prefix \o Suffix

\* C5 (as stated): for a matrix with at least one row and zero columns the
\* output is the prefix followed by the suffix, with an empty body.
C5_ZeroColumns ==
    (Done /\ Len(gate) >= 1 /\ \A r \in 1..Len(gate) : Len(gate[r]) = 0) =>
        output = Prefix \o Suffix

ZX ==
    <<<<Cplx(0, 0), Cplx(1, 0), Cplx(0, 0), Cplx(0, 0)>>,
      <<Cplx(1, 0), Cplx(0, 0), Cplx(0, 0), Cplx(0, 0)>>,
      <<Cplx(0, 0), Cplx(0, 0), Cplx(0, 0), Cplx(-1, 0)>>,
      <<Cplx(0, 0), Cplx(0, 0), Cplx(-1, 0), Cplx(0, 0)>>>>

\* C7: for the matrix of Z (x) X the entries of the output, read row-major,
\* are the renderings of its sixteen values, and the whole output is the
\* recorded output of the cell.
C7_ZXOutput ==
    (Done /\ gate = ZX) =>
        /\ Entries(output) = Rendered(ZX)
        /\ Len(Entries(output)) = 16
        /\ output = Recorded

C7_Witness == Done /\ gate = Kron(PauliZ, PauliX) /\ gate = ZX

\* C8: for the one-by-one matrix holding 1 the output is exactly the prefix,
\* '(1+0j)' and the suffix, with no column and no row delimiter in its body.
C8_SingleEntry ==
    (Done /\ gate = <<<<Cplx(1, 0)>>>>) =>
        /\ output = Prefix \o <<"(", "1", "+", "0", "j", ")">> \o Suffix
        /\ Count(Body(output), ColDelim) = 0
        /\ Count(Body(output), RowDelim) = 0

C8_Witness == Done /\ gate = <<<<Cplx(1, 0)>>>> /\ runs = 1

\* C9: no step changes the input matrix, and a second run on the same matrix
\* displays the string the first run displayed.
C9_Pure ==
    [][/\ gate' = gate
       /\ (pc = "display" /\ runs > 1) => output' = output]_vars

C9_Witness == Done /\ runs = 2 /\ Len(gate) = 2 /\ Cols(gate) = 2

LastOf(row) == row[Len(row)]

\* C10: for a matrix whose rows all hold at least one value, the trim after a
\* row removes exactly the '&' appended after the row's last element, the trim
\* after the last row removes exactly the row delimiter appended after it, and
\* after either trim the string still starts with the prefix and ends with the
\* rendering of the last element formatted.
C10_TrimsOnlyDelimiters ==
    [][NonEmptyRows(gate) =>
        /\ (pc = "for_element" /\ pc' = "row_delim") =>
              /\ gate_latex = gate_latex' \o ColDelim
              /\ EndsWith(gate_latex', Str(LastOf(gate[line])))
        /\ (pc = "trim_final" /\ pc' = "suffix") =>
              /\ gate_latex = gate_latex' \o RowDelim
              /\ EndsWith(gate_latex', Str(LastOf(gate[Len(gate)])))
        /\ StartsWith(gate_latex', Prefix)]_vars

C10_Witness ==
    /\ pc = "suffix"
    /\ NonEmptyRows(gate)
    /\ Len(gate) = 2
    /\ EndsWith(gate_latex, Str(LastOf(gate[2])))

====
